---- MODULE Spec2Model ----
(***************************************************************************)
(* Wait Wait Stats database export (database_export.py and the export      *)
(* package): the run of the module-level script as a state machine, the    *)
(* exporters' to_json methods as operators, and two invocations racing on  *)
(* a timestamped output directory.                                         *)
(***************************************************************************)
EXTENDS Integers, Sequences, FiniteSets, TLC

(* ------------------------------ bounds -------------------------------- *)

\* Largest number of rows a query returns.
MaxRows == 1

\* Last value of the wall clock, in ticks.
MaxClock == 3

\* Ticks of the wall clock per microsecond: datetime.now() has microsecond
\* resolution, the clock itself is finer.
TicksPerMicro == 2

\* Microseconds per second: %S is followed by the six digits of %f.
MicrosPerSecond == 1000000

Procs == {1, 2}

(* ------------------------- Python and JSON values --------------------- *)

\* A Python value as the connector returns it: a tag and a payload.
PyNone == [t |-> "None", v |-> 0]
PyInt(n) == [t |-> "int", v |-> n]
PyStr(n) == [t |-> "str", v |-> n]
PyDecimal(n) == [t |-> "Decimal", v |-> n]
PyDate(n) == [t |-> "date", v |-> n]

\* bool(x) of Python: None, zero and the empty string are false.
Truthy(x) ==
    CASE x.t = "None" -> FALSE
      [] x.t \in {"int", "float", "Decimal"} -> x.v # 0
      [] x.t = "bool" -> x.v = 1
      [] x.t = "str" -> x.v # 0
      [] OTHER -> TRUE

\* str(Decimal), float(Decimal), date.isoformat()
str(d) == [t |-> "str", v |-> d.v]
float(d) == [t |-> "float", v |-> d.v]
isoformat(d) == [t |-> "str", v |-> d.v]

\* json.dumps of one value: None is null, numbers are numbers, str is a
\* string; Decimal and date objects are not serializable.
JsonValue(x) ==
    CASE x.t = "None" -> [t |-> "null", v |-> 0]
      [] x.t \in {"int", "float"} -> [t |-> "number", v |-> x.v]
      [] x.t = "str" -> [t |-> "string", v |-> x.v]
      [] OTHER -> [t |-> "unserializable", v |-> x.v]

\* What a to_json method returns: None, or JSON text.  The text of an array
\* of objects is kept as the array it spells: a sequence of objects, each a
\* sequence of key/value members in the order written.
NoText == [st |-> "None", data |-> <<>>]
JsonText(objs) == [st |-> "json", data |-> objs]

\* json.dumps(list_of_dicts, indent=2, sort_keys=False): members keep the
\* dict's insertion order.
dumps(dicts) ==
    JsonText([i \in 1..Len(dicts) |->
        [j \in 1..Len(dicts[i]) |->
            [k |-> dicts[i][j].k, v |-> JsonValue(dicts[i][j].v)]]])

(* ------------------------------ queries ------------------------------- *)

\* The select-lists, in the order the SQL names the columns.
descriptions_query == <<"showid", "showdescription">>
guests_query == <<"guestid", "guest", "guestslug">>
hosts_query == <<"hostid", "host", "hostgender", "hostpronouns", "hostslug">>
locations_query ==
    <<"locationid", "city", "state", "venue", "latitude", "longitude",
      "locationslug">>
notes_query == <<"showid", "shownotes">>
panelists_query ==
    <<"panelistid", "panelist", "panelistgender", "panelistpronouns",
      "panelistslug">>
pronouns_query == <<"pronounsid", "pronouns">>
scorekeepers_query == <<"scorekeeperid", "scorekeeper", "scorekeeperslug">>
shows_query ==
    <<"showid", "showdate", "repeatshowid", "bestof", "bestofuniquebluff">>
bluff_map_query ==
    <<"showbluffmapid", "showid", "chosenbluffpnlid", "correctbluffpnlid">>
guest_map_query ==
    <<"showguestmapid", "showid", "guestid", "guestscore", "exception">>
host_map_query == <<"showhostmapid", "showid", "hostid", "guest">>
location_map_query == <<"showlocationmapid", "showid", "locationid">>
panelist_map_query ==
    <<"showpnlmapid", "showid", "panelistid",
      "panelistlrndstart", "panelistlrndstart_decimal",
      "panelistlrndcorrect", "panelistlrndcorrect_decimal",
      "panelistscore", "panelistscore_decimal", "showpnlrank">>
scorekeeper_map_query ==
    <<"showskmapid", "showid", "scorekeeperid", "guest", "description">>

Range(s) == {s[i] : i \in 1..Len(s)}

\* The decimal-valued columns.
DecimalColumns ==
    {"latitude", "longitude", "panelistlrndstart_decimal",
     "panelistlrndcorrect_decimal", "panelistscore_decimal"}

(* ----------------------------- table rows ------------------------------ *)

\* Row r of a table: the primary key (first column) is r, every other
\* column holds a value of its own, so that two columns never agree.
PlainRow(query, r) ==
    [c \in Range(query) |->
        LET i == CHOOSE j \in 1..Len(query) : query[j] = c
        IN  IF i = 1 THEN PyInt(r) ELSE PyStr(10 * r + i)]

\* A result set in primary-key order: rows 1..n.
PlainResults(query, n) == [r \in 1..n |-> PlainRow(query, r)]

\* latitude/longitude of a location row, as the table may hold them: each
\* nullable DECIMAL column is seen NULL, zero and non-zero.
LocationDecimals ==
    {<<PyNone, PyNone>>, <<PyDecimal(0), PyDecimal(5)>>,
     <<PyDecimal(5), PyDecimal(0)>>, <<PyNone, PyDecimal(5)>>,
     <<PyDecimal(5), PyDecimal(5)>>}

LocationRow(r, d) ==
    [PlainRow(locations_query, r) EXCEPT
        !["latitude"] = d[1], !["longitude"] = d[2]]

\* start/correct/score decimals of a panelist-map row.
PanelistDecimals ==
    {<<PyNone, PyNone, PyNone>>,
     <<PyNone, PyDecimal(0), PyDecimal(5)>>,
     <<PyDecimal(0), PyDecimal(5), PyNone>>,
     <<PyDecimal(5), PyNone, PyDecimal(0)>>,
     <<PyDecimal(5), PyDecimal(5), PyDecimal(5)>>}

PanelistMapRow(r, d) ==
    [PlainRow(panelist_map_query, r) EXCEPT
        !["panelistlrndstart"] = PyInt(10 * r + 4),
        !["panelistlrndstart_decimal"] = d[1],
        !["panelistlrndcorrect"] = PyInt(10 * r + 6),
        !["panelistlrndcorrect_decimal"] = d[2],
        !["panelistscore"] = PyInt(10 * r + 8),
        !["panelistscore_decimal"] = d[3]]

ShowRow(r) ==
    [PlainRow(shows_query, r) EXCEPT
        !["showdate"] = PyDate(10 * r + 2),
        !["repeatshowid"] = PyNone,
        !["bestof"] = PyInt(0),
        !["bestofuniquebluff"] = PyInt(0)]

RowCounts == 0..MaxRows

LocationResults ==
    UNION {[1..n -> LocationDecimals] : n \in RowCounts}

PanelistMapResults ==
    UNION {[1..n -> PanelistDecimals] : n \in RowCounts}

(* ------------------------------ exporters ----------------------------- *)

\* cursor(dictionary=True).fetchall(): each row a dict keyed in select-list
\* order.
DictRows(query, results) ==
    [i \in 1..Len(results) |->
        [j \in 1..Len(query) |-> [k |-> query[j], v |-> results[i][query[j]]]]]

\* "if results: return json.dumps(results, ...)": None for an empty result.
DictToJson(query, results) ==
    IF Len(results) > 0 THEN dumps(DictRows(query, results)) ELSE NoText

Descriptions_to_json(results) == DictToJson(descriptions_query, results)
Guests_to_json(results) == DictToJson(guests_query, results)
Hosts_to_json(results) == DictToJson(hosts_query, results)
Notes_to_json(results) == DictToJson(notes_query, results)
Panelists_to_json(results) == DictToJson(panelists_query, results)
Pronouns_to_json(results) == DictToJson(pronouns_query, results)
Scorekeepers_to_json(results) == DictToJson(scorekeepers_query, results)
Shows_guest_map_to_json(results) == DictToJson(guest_map_query, results)
Shows_host_map_to_json(results) == DictToJson(host_map_query, results)
Shows_location_map_to_json(results) == DictToJson(location_map_query, results)
Shows_scorekeeper_map_to_json(results) ==
    DictToJson(scorekeeper_map_query, results)
Shows_bluff_map_to_json(results) == DictToJson(bluff_map_query, results)

\* "if row.latitude: str(..) if convert_decimal_to_string else float(..)
\*  else: None"
LocationDecimal(value, convert_decimal_to_string) ==
    IF Truthy(value)
    THEN IF convert_decimal_to_string THEN str(value) ELSE float(value)
    ELSE PyNone

\* The dict Locations.to_json builds from one row.
LocationDict(row, convert_decimal_to_string) ==
    << [k |-> "locationid", v |-> row["locationid"]],
       [k |-> "city", v |-> row["city"]],
       [k |-> "state", v |-> row["venue"]],
       [k |-> "latitude",
        v |-> LocationDecimal(row["latitude"], convert_decimal_to_string)],
       [k |-> "longitude",
        v |-> LocationDecimal(row["longitude"], convert_decimal_to_string)],
       [k |-> "locationslug", v |-> row["locationslug"]] >>

\* Locations.to_json: the list starts empty and is dumped whatever the
\* result holds.
Locations_to_json(results, convert_decimal_to_string) ==
    dumps([i \in 1..Len(results) |->
              LocationDict(results[i], convert_decimal_to_string)])

\* Shows.to_json: showdate through isoformat().
Shows_to_json(results) ==
    IF Len(results) > 0
    THEN dumps([i \in 1..Len(results) |->
            << [k |-> "showid", v |-> results[i]["showid"]],
               [k |-> "showdate", v |-> isoformat(results[i]["showdate"])],
               [k |-> "repeatshowid", v |-> results[i]["repeatshowid"]],
               [k |-> "bestof", v |-> results[i]["bestof"]],
               [k |-> "bestofuniquebluff",
                v |-> results[i]["bestofuniquebluff"]] >>])
    ELSE NoText

PanelistDecimal(value, convert_decimal_to_string) ==
    IF Truthy(value)
    THEN IF convert_decimal_to_string THEN str(value) ELSE float(value)
    ELSE PyNone

PanelistMapDict(row, convert_decimal_to_string) ==
    << [k |-> "showpnlmapid", v |-> row["showpnlmapid"]],
       [k |-> "showid", v |-> row["showid"]],
       [k |-> "panelistid", v |-> row["panelistid"]],
       [k |-> "panelistlrndstart", v |-> row["panelistlrndstart"]],
       [k |-> "panelistlrndstart_decimal",
        v |-> PanelistDecimal(row["panelistlrndstart_decimal"],
                              convert_decimal_to_string)],
       [k |-> "panelistlrndcorrect", v |-> row["panelistlrndcorrect"]],
       [k |-> "panelistlrndcorrect_decimal",
        v |-> PanelistDecimal(row["panelistlrndcorrect_decimal"],
                              convert_decimal_to_string)],
       [k |-> "panelistscore", v |-> row["panelistscore"]],
       [k |-> "panelistscore_decimal",
        v |-> PanelistDecimal(row["panelistscore_decimal"],
                              convert_decimal_to_string)],
       [k |-> "showpnlrank", v |-> row["showpnlrank"]] >>

Shows_panelist_map_to_json(results, convert_decimal_to_string) ==
    IF Len(results) > 0
    THEN dumps([i \in 1..Len(results) |->
                   PanelistMapDict(results[i], convert_decimal_to_string)])
    ELSE NoText

(* --------------------------- config.json ------------------------------ *)

PyBool(b) == [t |-> "bool", v |-> IF b THEN 1 ELSE 0]
Absent == [t |-> "absent", v |-> 0]

\* bool(x)
bool(x) == PyBool(Truthy(x))

\* Values a setting may have in the document: true, false, the string
\* "false" (a non-empty string), or no such key.
SettingValues == {PyBool(TRUE), PyBool(FALSE), PyStr(1), Absent}

\* config.json: missing, unreadable, not JSON, or a JSON object with or
\* without the "database" and "settings" sections.
ConfigDocs ==
    {[file |-> "missing", database |-> FALSE, settings |-> FALSE,
      include_panelist_decimal_score |-> Absent,
      convert_decimal_to_string |-> Absent],
     [file |-> "unreadable", database |-> FALSE, settings |-> FALSE,
      include_panelist_decimal_score |-> Absent,
      convert_decimal_to_string |-> Absent],
     [file |-> "invalid", database |-> FALSE, settings |-> FALSE,
      include_panelist_decimal_score |-> Absent,
      convert_decimal_to_string |-> Absent],
     [file |-> "json", database |-> TRUE, settings |-> FALSE,
      include_panelist_decimal_score |-> Absent,
      convert_decimal_to_string |-> Absent],
     [file |-> "json", database |-> FALSE, settings |-> TRUE,
      include_panelist_decimal_score |-> Absent,
      convert_decimal_to_string |-> Absent]}
    \cup
    [file : {"json"}, database : {TRUE}, settings : {TRUE},
     include_panelist_decimal_score : SettingValues,
     convert_decimal_to_string : SettingValues]

\* What load_settings returns: None, or the settings dict.
NoSettings ==
    [t |-> "None", include_panelist_decimal_score |-> PyNone,
     convert_decimal_to_string |-> PyNone]

\* settings.get(key, False)
get(value, default) == IF value = Absent THEN default ELSE value

load_database_config(doc) == IF doc.database THEN "dict" ELSE "None"

\* load_settings returning both settings as False for a document without
\* the "settings" section.
load_settings_defaults(doc) ==
    [t |-> "dict",
     include_panelist_decimal_score |->
         bool(get(doc.include_panelist_decimal_score, PyBool(FALSE))),
     convert_decimal_to_string |->
         bool(get(doc.convert_decimal_to_string, PyBool(FALSE)))]

load_settings(doc) ==
    IF doc.settings
    THEN [t |-> "dict",
          include_panelist_decimal_score |->
              bool(get(doc.include_panelist_decimal_score, PyBool(FALSE))),
          convert_decimal_to_string |->
              bool(get(doc.convert_decimal_to_string, PyBool(FALSE)))]
    ELSE NoSettings

(* --------------------------- output directory ------------------------- *)

NoSub == 0 - 1

\* Path(arguments["output"])
Path(output) == [base |-> output, sub |-> NoSub]

\* path.joinpath(name)
joinpath(path, name) == [path EXCEPT !.sub = name]

\* datetime.now(): the clock reading cut to whole microseconds.
datetime_now(ticks) ==
    LET micros == ticks \div TicksPerMicro
    IN  [second |-> micros \div MicrosPerSecond,
         microsecond |-> micros % MicrosPerSecond]

\* strftime("%Y%m%d-%H%M%S"): the format without %f.
strftime_seconds(dt) == dt.second

\* strftime("%Y%m%d-%H%M%S%f"): the digits of the seconds followed by the
\* six digits of the microsecond, read as one number.
strftime(dt) == dt.second * MicrosPerSecond + dt.microsecond

parse_output_directory(arguments, ticks) ==
    IF arguments.date
    THEN joinpath(Path(arguments.output), strftime(datetime_now(ticks)))
    ELSE Path(arguments.output)

\* mkdir(parents=True): the directory and its missing parents.
mkdir(existing, path) == existing \cup {path, Path(path.base)}

(* ------------------------------- state -------------------------------- *)

VARIABLES
    pc,                \* the statement of the script about to run
    fault,             \* the exception that ended the run, "" if none
    denied,            \* the path named by the permission diagnostic
    config,            \* the content of config.json
    schema,            \* ww_showpnlmap has panelistscore_decimal
    database_config,
    settings_config,
    parsed_arguments,
    output_directory,
    dirs,              \* the directories that exist
    files,             \* the files of the output directory
    results,           \* per table, what its query returned
    invoked,           \* the to_json operations called, in order
    opened,            \* the files opened for writing, in order
    given,             \* per file, the text last written to it in full
    connections,       \* calls of mysql.connector.connect
    clock,             \* the wall clock, in ticks
    inv,               \* two concurrent invocations: their positions
    written,           \* files the concurrent invocations wrote
    exporters,         \* exporters a client constructed, per class
    handles            \* the client's connection handles

vars ==
    <<pc, fault, denied, config, schema, database_config, settings_config,
      parsed_arguments, output_directory, dirs, files, results, invoked,
      opened, given, connections, clock, inv, written, exporters, handles>>

runVars ==
    <<pc, fault, denied, config, schema, database_config, settings_config,
      parsed_arguments, output_directory, files, results, invoked,
      opened, given, connections>>

raceVars == <<inv, written>>

clientVars == <<exporters, handles>>

\* The output files, in the order the script opens them.
OutputFiles ==
    <<"ww_showdescriptions.json", "ww_guests.json", "ww_hosts.json",
      "ww_locations.json", "ww_shownotes.json", "ww_panelists.json",
      "ww_pronouns.json", "ww_scorekeepers.json", "ww_shows.json",
      "ww_showguestmap.json", "ww_showhostmap.json", "ww_showhostmap.json",
      "ww_showlocationmap.json", "ww_showpnlmap.json", "ww_showskmap.json">>

FileNames == Range(OutputFiles)

NoFile == [st |-> "absent", data |-> <<>>]
EmptyFile == [st |-> "empty", data |-> <<>>]

NotQueried == [queried |-> FALSE, rows |-> <<>>]
Queried(rows) == [queried |-> TRUE, rows |-> rows]

\* open("w") and write() succeed, open raises PermissionError, or open
\* succeeds (creating or truncating the file) and the write raises it.
Permissions == {"ok", "open_denied", "write_denied"}

Ended == {"done", "exit1", "unhandled"}

(* ------------------------------ the run ------------------------------- *)

\* A plain table is empty or holds MaxRows rows.
TableSizes == {0, MaxRows}

InitRun ==
    /\ pc = "load_database_config"
    /\ fault = ""
    /\ denied = ""
    /\ database_config = "unset"
    /\ settings_config = NoSettings
    /\ parsed_arguments = [date |-> FALSE, output |-> "out"]
    /\ output_directory = Path("out")
    /\ files = [f \in FileNames |-> NoFile]
    /\ results = [f \in FileNames |-> NotQueried]
    /\ invoked = <<>>
    /\ opened = <<>>
    /\ given = [f \in FileNames |-> NoFile]
    /\ connections = 0

InitRace ==
    /\ inv = [p \in Procs |->
                 [pc |-> "idle", date |-> FALSE, now |-> 0,
                  dir |-> Path("out"), k |-> 1]]
    /\ written = {}

\* The classes whose __init__ a client calls, and its two handles.
ExporterClasses == {"Guests", "Hosts", "Shows"}
Handles == {"cnx1", "cnx2"}
NoHandle == "None"

NotConstructed ==
    [made |-> FALSE, connect_dict |-> "None", handle |-> NoHandle,
     was_connected |-> FALSE, database_connection |-> "unset",
     held |-> NoHandle, connects |-> 0, reconnects |-> 0]

InitClient ==
    /\ exporters = [c \in ExporterClasses |-> NotConstructed]
    /\ handles = [h \in Handles |-> [connected |-> TRUE, reconnects |-> 0]]

Init ==
    /\ InitRun
    /\ InitRace
    /\ InitClient
    /\ config \in ConfigDocs
    /\ schema \in BOOLEAN
    /\ dirs \in {{}, {Path("out")}}
    /\ clock = 0

\* An unhandled exception ends the run.
Raise(exception) ==
    /\ pc' = "unhandled"
    /\ fault' = exception

\* load_database_config with a default substituted for a config file
\* that cannot be loaded.
LoadDatabaseConfig_default ==
    /\ pc = "load_database_config"
    /\ database_config' =
           IF config.file = "json" THEN load_database_config(config)
           ELSE "dict"
    /\ pc' = "load_settings"
    /\ UNCHANGED <<fault, denied, config, schema, settings_config,
                   parsed_arguments, output_directory, dirs, files, results,
                   invoked, opened, given, connections, clock, inv, written,
                   exporters, handles>>

\* "database_config = load_database_config()": open() and json.load()
\* raise on a missing, unreadable or malformed file.
LoadDatabaseConfig ==
    /\ pc = "load_database_config"
    /\ IF config.file = "missing" THEN
           /\ Raise("FileNotFoundError")
           /\ UNCHANGED database_config
       ELSE IF config.file = "unreadable" THEN
           /\ Raise("PermissionError")
           /\ UNCHANGED database_config
       ELSE IF config.file = "invalid" THEN
           /\ Raise("JSONDecodeError")
           /\ UNCHANGED database_config
       ELSE
           /\ database_config' = load_database_config(config)
           /\ pc' = "load_settings"
           /\ UNCHANGED fault
    /\ UNCHANGED <<denied, config, schema, settings_config, parsed_arguments,
                   output_directory, dirs, files, results, invoked, opened,
                   given, connections, clock, inv, written, exporters, handles>>

\* "settings_config = load_settings()"
LoadSettings ==
    /\ pc = "load_settings"
    /\ settings_config' = load_settings(config)
    /\ pc' = "parse_arguments"
    /\ UNCHANGED <<fault, denied, config, schema, database_config,
                   parsed_arguments, output_directory, dirs, files, results,
                   invoked, opened, given, connections, clock, inv, written, exporters, handles>>

\* "parsed_arguments = parse_arguments()" and
\* "output_directory = parse_output_directory(parsed_arguments)"
ParseArguments ==
    /\ pc = "parse_arguments"
    /\ \E date \in BOOLEAN :
         /\ parsed_arguments' = [date |-> date, output |-> "out"]
         /\ output_directory' =
                parse_output_directory(parsed_arguments', clock)
    /\ pc' = "create_output_directory"
    /\ UNCHANGED <<fault, denied, config, schema, database_config,
                   settings_config, dirs, files, results, invoked, opened,
                   given, connections, clock, inv, written, exporters, handles>>

\* create_output_directory without the sys.exit(1): the diagnostic is
\* printed and the script goes on.
create_output_directory_no_exit(mkdir_denied) ==
    IF output_directory \in dirs THEN
        /\ pc' = "export_description_table"
        /\ UNCHANGED <<dirs, fault, denied>>
    ELSE IF mkdir_denied THEN
        /\ pc' = "export_description_table"
        /\ fault' = "PermissionError"
        /\ denied' = "output_directory"
        /\ UNCHANGED dirs
    ELSE
        /\ dirs' = mkdir(dirs, output_directory)
        /\ pc' = "export_description_table"
        /\ UNCHANGED <<fault, denied>>

\* create_output_directory: nothing to do when the directory exists;
\* otherwise mkdir, and on PermissionError the diagnostic and sys.exit(1).
create_output_directory(mkdir_denied) ==
    IF output_directory \in dirs THEN
        /\ pc' = "export_description_table"
        /\ UNCHANGED <<dirs, fault, denied>>
    ELSE IF mkdir_denied THEN
        /\ pc' = "exit1"
        /\ fault' = "PermissionError"
        /\ denied' = "output_directory"
        /\ UNCHANGED dirs
    ELSE
        /\ dirs' = mkdir(dirs, output_directory)
        /\ pc' = "export_description_table"
        /\ UNCHANGED <<fault, denied>>

CreateOutputDirectory ==
    /\ pc = "create_output_directory"
    /\ \E mkdir_denied \in BOOLEAN : create_output_directory(mkdir_denied)
    /\ UNCHANGED <<config, schema, database_config, settings_config,
                   parsed_arguments, output_directory, files, results,
                   invoked, opened, given, connections, clock, inv, written, exporters, handles>>

\* "try: with path.open("w") as f: f.write(text)
\*  except PermissionError: print(...); sys.exit(1)"
\* open() creates or truncates the file before anything is written;
\* write(None) raises TypeError, which the except clause does not catch.
WriteFile(name, text, permission, next) ==
    IF output_directory \notin dirs THEN
        /\ Raise("FileNotFoundError")
        /\ UNCHANGED <<denied, files, opened, given>>
    ELSE IF permission = "open_denied" THEN
        /\ pc' = "exit1"
        /\ fault' = "PermissionError"
        /\ denied' = name
        /\ UNCHANGED <<files, opened, given>>
    ELSE IF text.st = "None" THEN
        /\ files' = [files EXCEPT ![name] = EmptyFile]
        /\ opened' = Append(opened, name)
        /\ Raise("TypeError")
        /\ UNCHANGED <<denied, given>>
    ELSE IF permission = "write_denied" THEN
        /\ files' = [files EXCEPT ![name] = EmptyFile]
        /\ opened' = Append(opened, name)
        /\ pc' = "exit1"
        /\ fault' = "PermissionError"
        /\ denied' = name
        /\ UNCHANGED given
    ELSE
        /\ files' = [files EXCEPT ![name] = text]
        /\ opened' = Append(opened, name)
        /\ given' = [given EXCEPT ![name] = text]
        /\ pc' = next
        /\ UNCHANGED <<fault, denied>>

\* An __init__ that opens nothing (as if a shared connection were passed).
connect_nothing(connect_dict) == 0

\* Exporter.__init__(connect_dict=database_config): a new connection when
\* connect_dict is truthy; with None neither branch runs and the exporter
\* has no database_connection attribute.
connect(connect_dict) == IF connect_dict = "dict" THEN 1 ELSE 0

\* One export: construct the exporter (when the step constructs one), run
\* its query, turn the rows to text and write the file.
Export(operation, name, rows, text, permission, constructs, next) ==
    IF database_config # "dict" THEN
        /\ Raise("AttributeError")
        /\ UNCHANGED <<denied, files, results, invoked, opened, given,
                       connections>>
    ELSE
        /\ connections' =
               connections + (IF constructs THEN connect(database_config)
                              ELSE 0)
        /\ invoked' = Append(invoked, operation)
        /\ results' = [results EXCEPT ![name] = Queried(rows)]
        /\ WriteFile(name, text, permission, next)

unchangedByExport ==
    <<config, schema, database_config, settings_config, parsed_arguments,
      output_directory, dirs, clock, inv, written, exporters, handles>>

export_description_table ==
    /\ pc = "export_description_table"
    /\ \E n \in TableSizes, permission \in Permissions :
         LET rows == PlainResults(descriptions_query, n)
         IN  Export("Descriptions.to_json", "ww_showdescriptions.json", rows,
                    Descriptions_to_json(rows), permission, TRUE,
                    "export_guests_table")
    /\ UNCHANGED unchangedByExport

\* export_guests_table followed by export_locations_table: the call of
\* export_hosts_table out of its place.
export_guests_table_then_locations ==
    /\ pc = "export_guests_table"
    /\ \E n \in TableSizes, permission \in Permissions :
         LET rows == PlainResults(guests_query, n)
         IN  Export("Guests.to_json", "ww_guests.json", rows,
                    Guests_to_json(rows), permission, TRUE,
                    "export_locations_table")
    /\ UNCHANGED unchangedByExport

export_guests_table ==
    /\ pc = "export_guests_table"
    /\ \E n \in TableSizes, permission \in Permissions :
         LET rows == PlainResults(guests_query, n)
         IN  Export("Guests.to_json", "ww_guests.json", rows,
                    Guests_to_json(rows), permission, TRUE,
                    "export_hosts_table")
    /\ UNCHANGED unchangedByExport

export_hosts_table ==
    /\ pc = "export_hosts_table"
    /\ \E n \in TableSizes, permission \in Permissions :
         LET rows == PlainResults(hosts_query, n)
         IN  Export("Hosts.to_json", "ww_hosts.json", rows,
                    Hosts_to_json(rows), permission, TRUE,
                    "export_locations_table")
    /\ UNCHANGED unchangedByExport

\* The argument settings_config["convert_decimal_to_string"] is evaluated
\* before the call: subscripting None raises TypeError.
export_locations_table ==
    /\ pc = "export_locations_table"
    /\ IF settings_config.t = "None" THEN
           /\ Raise("TypeError")
           /\ UNCHANGED <<denied, files, results, invoked, opened, given,
                          connections>>
       ELSE
           \E d \in LocationResults, permission \in Permissions :
             LET rows == [r \in 1..Len(d) |-> LocationRow(r, d[r])]
                 convert == Truthy(settings_config.convert_decimal_to_string)
             IN  Export("Locations.to_json", "ww_locations.json", rows,
                        Locations_to_json(rows, convert), permission, TRUE,
                        "export_notes_table")
    /\ UNCHANGED unchangedByExport

export_notes_table ==
    /\ pc = "export_notes_table"
    /\ \E n \in TableSizes, permission \in Permissions :
         LET rows == PlainResults(notes_query, n)
         IN  Export("Notes.to_json", "ww_shownotes.json", rows,
                    Notes_to_json(rows), permission, TRUE,
                    "export_panelists_table")
    /\ UNCHANGED unchangedByExport

export_panelists_table ==
    /\ pc = "export_panelists_table"
    /\ \E n \in TableSizes, permission \in Permissions :
         LET rows == PlainResults(panelists_query, n)
         IN  Export("Panelists.to_json", "ww_panelists.json", rows,
                    Panelists_to_json(rows), permission, TRUE,
                    "export_pronouns_table")
    /\ UNCHANGED unchangedByExport

export_pronouns_table ==
    /\ pc = "export_pronouns_table"
    /\ \E n \in TableSizes, permission \in Permissions :
         LET rows == PlainResults(pronouns_query, n)
         IN  Export("Pronouns.to_json", "ww_pronouns.json", rows,
                    Pronouns_to_json(rows), permission, TRUE,
                    "export_scorekeepers_table")
    /\ UNCHANGED unchangedByExport

export_scorekeepers_table ==
    /\ pc = "export_scorekeepers_table"
    /\ \E n \in TableSizes, permission \in Permissions :
         LET rows == PlainResults(scorekeepers_query, n)
         IN  Export("Scorekeepers.to_json", "ww_scorekeepers.json", rows,
                    Scorekeepers_to_json(rows), permission, TRUE,
                    "export_shows_tables")
    /\ UNCHANGED unchangedByExport

(* --------------------------- export_shows_tables ---------------------- *)

\* export_shows_tables called without the keyword: the default, False.
export_shows_tables_default == PyBool(FALSE)

\* The keyword argument of the call of export_shows_tables.
export_shows_tables_argument == settings_config.convert_decimal_to_string

\* "shows = Shows(connect_dict=database_config)" and the ww_shows block.
export_shows_tables_shows ==
    /\ pc = "export_shows_tables"
    /\ \E n \in TableSizes, permission \in Permissions :
         LET rows == [r \in 1..n |-> ShowRow(r)]
         IN  Export("Shows.to_json", "ww_shows.json", rows,
                    Shows_to_json(rows), permission, TRUE, "guest_map")
    /\ UNCHANGED unchangedByExport

export_shows_tables_guest_map ==
    /\ pc = "guest_map"
    /\ \E n \in TableSizes, permission \in Permissions :
         LET rows == PlainResults(guest_map_query, n)
         IN  Export("Shows.guest_map_to_json", "ww_showguestmap.json", rows,
                    Shows_guest_map_to_json(rows), permission, FALSE,
                    "host_map")
    /\ UNCHANGED unchangedByExport

export_shows_tables_host_map ==
    /\ pc = "host_map"
    /\ \E n \in TableSizes, permission \in Permissions :
         LET rows == PlainResults(host_map_query, n)
         IN  Export("Shows.host_map_to_json", "ww_showhostmap.json", rows,
                    Shows_host_map_to_json(rows), permission, FALSE,
                    "host_map_again")
    /\ UNCHANGED unchangedByExport

\* The host-map block a second time.
export_shows_tables_host_map_again ==
    /\ pc = "host_map_again"
    /\ \E n \in TableSizes, permission \in Permissions :
         LET rows == PlainResults(host_map_query, n)
         IN  Export("Shows.host_map_to_json", "ww_showhostmap.json", rows,
                    Shows_host_map_to_json(rows), permission, FALSE,
                    "location_map")
    /\ UNCHANGED unchangedByExport

export_shows_tables_location_map ==
    /\ pc = "location_map"
    /\ \E n \in TableSizes, permission \in Permissions :
         LET rows == PlainResults(location_map_query, n)
         IN  Export("Shows.location_map_to_json", "ww_showlocationmap.json",
                    rows, Shows_location_map_to_json(rows), permission,
                    FALSE, "panelist_map")
    /\ UNCHANGED unchangedByExport

\* The query names panelistscore_decimal whatever the schema: without the
\* column cursor.execute raises ProgrammingError.
export_shows_tables_panelist_map ==
    /\ pc = "panelist_map"
    /\ IF ~schema THEN
           /\ invoked' = Append(invoked, "Shows.panelist_map_to_json")
           /\ Raise("ProgrammingError")
           /\ UNCHANGED <<denied, files, results, opened, given, connections>>
       ELSE
           \E d \in PanelistMapResults, permission \in Permissions :
             LET rows == [r \in 1..Len(d) |-> PanelistMapRow(r, d[r])]
                 convert == Truthy(export_shows_tables_argument)
             IN  Export("Shows.panelist_map_to_json", "ww_showpnlmap.json",
                        rows, Shows_panelist_map_to_json(rows, convert),
                        permission, FALSE, "scorekeeper_map")
    /\ UNCHANGED unchangedByExport

export_shows_tables_scorekeeper_map ==
    /\ pc = "scorekeeper_map"
    /\ \E n \in TableSizes, permission \in Permissions :
         LET rows == PlainResults(scorekeeper_map_query, n)
         IN  Export("Shows.scorekeeper_map_to_json", "ww_showskmap.json",
                    rows, Shows_scorekeeper_map_to_json(rows), permission,
                    FALSE, "done")
    /\ UNCHANGED unchangedByExport

Next ==
    \/ LoadDatabaseConfig
    \/ LoadSettings
    \/ ParseArguments
    \/ CreateOutputDirectory
    \/ export_description_table
    \/ export_guests_table
    \/ export_hosts_table
    \/ export_locations_table
    \/ export_notes_table
    \/ export_panelists_table
    \/ export_pronouns_table
    \/ export_scorekeepers_table
    \/ export_shows_tables_shows
    \/ export_shows_tables_guest_map
    \/ export_shows_tables_host_map
    \/ export_shows_tables_host_map_again
    \/ export_shows_tables_location_map
    \/ export_shows_tables_panelist_map
    \/ export_shows_tables_scorekeeper_map

Spec == Init /\ [][Next]_vars

(* ------------------- two invocations with --date ---------------------- *)

\* Two processes run the script at once on the same output path.  Each
\* resolves its directory from the clock, checks that it exists, creates
\* it, and writes its files; the tables are not empty and no permission is
\* denied.  The clock advances between any two steps.

InitDate ==
    /\ InitRun
    /\ InitClient
    /\ config \in {d \in ConfigDocs : d.file = "missing"}
    /\ schema = TRUE
    /\ dirs \in {{}, {Path("out")}}
    /\ clock = 0
    /\ inv \in [Procs ->
                  [pc : {"parse_output_directory"}, date : BOOLEAN,
                   now : {datetime_now(0)}, dir : {Path("out")}, k : {1}]]
    /\ written = {}

Tick ==
    /\ clock < MaxClock
    /\ clock' = clock + 1
    /\ UNCHANGED <<runVars, raceVars, clientVars, dirs>>

\* "output_directory = parse_output_directory(parsed_arguments)"
race_parse_output_directory(p) ==
    /\ inv[p].pc = "parse_output_directory"
    /\ inv' = [inv EXCEPT
                 ![p].now = datetime_now(clock),
                 ![p].dir = parse_output_directory(
                                [date |-> inv[p].date, output |-> "out"],
                                clock),
                 ![p].pc = "exists"]
    /\ UNCHANGED <<runVars, clientVars, written, dirs, clock>>

\* "if not output_directory.exists():"
race_exists(p) ==
    /\ inv[p].pc = "exists"
    /\ inv' = [inv EXCEPT
                 ![p].pc = IF inv[p].dir \in dirs THEN "export" ELSE "mkdir"]
    /\ UNCHANGED <<runVars, clientVars, written, dirs, clock>>

\* "output_directory.mkdir(parents=True)": FileExistsError, which nothing
\* catches, when the directory has appeared since the check.
race_mkdir(p) ==
    /\ inv[p].pc = "mkdir"
    /\ IF inv[p].dir \in dirs THEN
           /\ inv' = [inv EXCEPT ![p].pc = "FileExistsError"]
           /\ UNCHANGED dirs
       ELSE
           /\ dirs' = mkdir(dirs, inv[p].dir)
           /\ inv' = [inv EXCEPT ![p].pc = "export"]
    /\ UNCHANGED <<runVars, clientVars, written, clock>>

\* The next output file is opened for writing and written.
race_write(p) ==
    /\ inv[p].pc = "export"
    /\ written' = written \cup
           {[dir |-> inv[p].dir, name |-> OutputFiles[inv[p].k], by |-> p]}
    /\ inv' = [inv EXCEPT
                 ![p].k = inv[p].k + 1,
                 ![p].pc = IF inv[p].k = Len(OutputFiles) THEN "done"
                           ELSE "export"]
    /\ UNCHANGED <<runVars, clientVars, dirs, clock>>

NextDate ==
    \/ Tick
    \/ \E p \in Procs : race_parse_output_directory(p)
    \/ \E p \in Procs : race_exists(p)
    \/ \E p \in Procs : race_mkdir(p)
    \/ \E p \in Procs : race_write(p)

SpecDate == InitDate /\ [][NextDate]_vars

(* ------------------------------ properties ---------------------------- *)

\* The select-list behind each output file.
QueryOf(name) ==
    CASE name = "ww_showdescriptions.json" -> descriptions_query
      [] name = "ww_guests.json" -> guests_query
      [] name = "ww_hosts.json" -> hosts_query
      [] name = "ww_locations.json" -> locations_query
      [] name = "ww_shownotes.json" -> notes_query
      [] name = "ww_panelists.json" -> panelists_query
      [] name = "ww_pronouns.json" -> pronouns_query
      [] name = "ww_scorekeepers.json" -> scorekeepers_query
      [] name = "ww_shows.json" -> shows_query
      [] name = "ww_showguestmap.json" -> guest_map_query
      [] name = "ww_showhostmap.json" -> host_map_query
      [] name = "ww_showlocationmap.json" -> location_map_query
      [] name = "ww_showpnlmap.json" -> panelist_map_query
      [] name = "ww_showskmap.json" -> scorekeeper_map_query

ReturnedNoRows(name) == results[name].queried /\ Len(results[name].rows) = 0

DecimalFiles == {"ww_locations.json", "ww_showpnlmap.json"}

\* The files of the exporters whose to_json is in the source tree.
SourceFiles ==
    FileNames \ {"ww_showdescriptions.json", "ww_shownotes.json",
                 "ww_scorekeepers.json"}

\* C1: after a run, a table whose query returned zero rows has no file of
\* its name in the output directory, neither empty nor holding an empty
\* array (stated for the exporters of the source tree, locations
\* included).
C1_EmptyTableLeavesNoFile ==
    pc \in Ended =>
        \A name \in SourceFiles :
            ReturnedNoRows(name) => files[name] = NoFile

\* C2: a run in which some table (of an exporter of the source tree)
\* returned zero rows and no permission error occurred, the schema and the
\* configuration being in order, queries every table and ends with exit
\* status 0.
C2_EmptyResultIsNotAnError ==
    ( /\ pc \in Ended
      /\ \E name \in SourceFiles : ReturnedNoRows(name)
      /\ \A name \in FileNames \ SourceFiles : ~ReturnedNoRows(name)
      /\ fault # "PermissionError"
      /\ schema
      /\ database_config = "dict"
      /\ settings_config.t = "dict" )
    => ( /\ pc = "done"
         /\ \A name \in FileNames : results[name].queried )

\* C3: when opening or writing an output file raises a permission error the
\* process is at exit status 1 (where no step is left to take) and every
\* file that was written earlier in the run still holds the text it was
\* given.
C3_PermissionErrorKeepsEarlierFiles ==
    (fault = "PermissionError" /\ denied \in FileNames) =>
        /\ pc = "exit1"
        /\ \A name \in FileNames :
               given[name] # NoFile => files[name] = given[name]

\* C4: when creating the missing output directory is denied, the process is
\* at exit status 1, no file exists, no file was opened, no exporter was
\* constructed (no connection made) and no export operation ran.
C4_MkdirDeniedWritesNothing ==
    denied = "output_directory" =>
        /\ pc = "exit1"
        /\ \A name \in FileNames : files[name] = NoFile
        /\ opened = <<>>
        /\ invoked = <<>>
        /\ connections = 0

C4_Witness ==
    /\ denied = "output_directory"
    /\ pc = "exit1"
    /\ output_directory \notin dirs

\* A JSON value carries a column's value: it is the value's own JSON form,
\* or the string or number form of a Decimal, or the ISO string of a date.
Carries(json, value) ==
    \/ json = JsonValue(value)
    \/ value.t = "Decimal" /\ json \in {JsonValue(str(value)),
                                        JsonValue(float(value))}
    \/ value.t = "date" /\ json = JsonValue(isoformat(value))

\* C5: every object of every written file has exactly the keys of the
\* operation's select-list, in select-list order, each with the value of
\* the same-named column of its row.
C5_EmittedKeysMatchSelectList ==
    \A name \in FileNames :
        (files[name].st = "json" /\ files[name] = given[name]) =>
            LET query == QueryOf(name)
                rows == results[name].rows
                data == files[name].data
            IN  /\ Len(data) = Len(rows)
                /\ \A i \in 1..Len(data) :
                       /\ Len(data[i]) = Len(query)
                       /\ \A j \in 1..Len(query) :
                              /\ data[i][j].k = query[j]
                              /\ Carries(data[i][j].v, rows[i][query[j]])

\* C6: in the locations and panelist-map files every decimal column of
\* every row has its key, whose value is null exactly when the column is
\* NULL and otherwise carries the column's value, zero included.
C6_DecimalNullIffDatabaseNull ==
    \A name \in DecimalFiles :
        files[name].st = "json" =>
            LET rows == results[name].rows
                data == files[name].data
            IN  \A i \in 1..Len(data) :
                  \A c \in DecimalColumns \cap Range(QueryOf(name)) :
                    \E j \in 1..Len(data[i]) :
                        /\ data[i][j].k = c
                        /\ (data[i][j].v.t = "null") <=> (rows[i][c] = PyNone)
                        /\ rows[i][c] # PyNone =>
                               /\ data[i][j].v.t \in {"string", "number"}
                               /\ data[i][j].v.v = rows[i][c].v

\* C7: within a run every decimal field emitted as a value, in the
\* locations file and in the panelist-map file alike, is a JSON string when
\* convert_decimal_to_string is true and a JSON number when it is false.
C7_OneDecimalRepresentation ==
    \A name \in DecimalFiles :
        files[name].st = "json" =>
            \A i \in 1..Len(files[name].data) :
              \A j \in 1..Len(files[name].data[i]) :
                LET member == files[name].data[i][j]
                IN  (member.k \in DecimalColumns /\ member.v.t # "null") =>
                        member.v.t =
                            IF Truthy(settings_config.convert_decimal_to_string)
                            THEN "string" ELSE "number"

HasDecimalOfType(name, type) ==
    /\ files[name].st = "json"
    /\ \E i \in 1..Len(files[name].data) :
         \E j \in 1..Len(files[name].data[i]) :
            /\ files[name].data[i][j].k \in DecimalColumns
            /\ files[name].data[i][j].v.t = type

C7_Witness ==
    /\ Truthy(settings_config.convert_decimal_to_string)
    /\ HasDecimalOfType("ww_locations.json", "string")
    /\ HasDecimalOfType("ww_showpnlmap.json", "string")

\* C8: when ww_showpnlmap has no panelistscore_decimal column, the
\* panelist-map operation, once invoked, does not end in a query error.
C8_MissingColumnFallsBack ==
    (~schema /\ \E i \in 1..Len(invoked) :
                    invoked[i] = "Shows.panelist_map_to_json")
    => fault # "ProgrammingError"

\* C9: once the settings are loaded from a document that is valid JSON, the
\* result is a settings map whose two settings are booleans, false for
\* every setting the document does not give.
C9_SettingsAreBooleansWithDefaults ==
    (config.file = "json" /\ pc \notin {"load_database_config",
                                        "load_settings"}) =>
        /\ settings_config.t = "dict"
        /\ settings_config.include_panelist_decimal_score.t = "bool"
        /\ settings_config.convert_decimal_to_string.t = "bool"
        /\ (~config.settings \/ config.include_panelist_decimal_score = Absent)
               => settings_config.include_panelist_decimal_score
                      = PyBool(FALSE)
        /\ (~config.settings \/ config.convert_decimal_to_string = Absent)
               => settings_config.convert_decimal_to_string = PyBool(FALSE)

\* Both invocations were given --date and have resolved their directory.
BothDated(p, q) ==
    /\ p # q
    /\ inv[p].date /\ inv[q].date
    /\ inv[p].pc # "parse_output_directory"
    /\ inv[q].pc # "parse_output_directory"

\* The two invocations collide: same directory, or one failed on creating
\* a directory the other made, or both wrote the same file.
Collide(p, q) ==
    \/ inv[p].dir = inv[q].dir
    \/ inv[p].pc = "FileExistsError"
    \/ inv[q].pc = "FileExistsError"
    \/ \E w1, w2 \in written :
          w1.by = p /\ w2.by = q /\ w1.dir = w2.dir /\ w1.name = w2.name

\* C10 as stated: two invocations with --date and the same output path
\* never collide.
C10_NeverCollide ==
    \A p, q \in Procs : BothDated(p, q) => ~Collide(p, q)

\* C10 amended: two invocations with --date and the same output path whose
\* clock readings differ in the microsecond never collide.
C10_DistinctReadingsNeverCollide ==
    \A p, q \in Procs :
        (BothDated(p, q) /\ inv[p].now # inv[q].now) => ~Collide(p, q)

C10_Witness ==
    /\ BothDated(1, 2)
    /\ inv[1].now # inv[2].now
    /\ inv[1].pc = "done"
    /\ inv[2].pc = "done"

\* The exporter class of an operation: the text before the dot.
ClassOf(operation) ==
    CASE operation = "Descriptions.to_json" -> "Descriptions"
      [] operation = "Guests.to_json" -> "Guests"
      [] operation = "Hosts.to_json" -> "Hosts"
      [] operation = "Locations.to_json" -> "Locations"
      [] operation = "Notes.to_json" -> "Notes"
      [] operation = "Panelists.to_json" -> "Panelists"
      [] operation = "Pronouns.to_json" -> "Pronouns"
      [] operation = "Scorekeepers.to_json" -> "Scorekeepers"
      [] OTHER -> "Shows"

\* The exporters constructed so far: those whose operations have run.
Constructed == {ClassOf(invoked[i]) : i \in 1..Len(invoked)}

ConnectDicts == {"None", "empty", "dict"}

\* The database_connection argument: None, or a handle and whether
\* is_connected() answers true.
NoConnection == [given |-> FALSE, id |-> NoHandle, connected |-> FALSE]
HandleArgument(h) ==
    [given |-> TRUE, id |-> h, connected |-> handles[h].connected]

\* __init__ that takes the handle without asking is_connected().
Exporter__init__no_reconnect(connect_dict, database_connection) ==
    IF connect_dict = "dict" THEN
        [database_connection |-> "new", held |-> NoHandle,
         connects |-> 1, reconnects |-> 0]
    ELSE IF database_connection.given THEN
        [database_connection |-> "handle", held |-> database_connection.id,
         connects |-> 0, reconnects |-> 0]
    ELSE
        [database_connection |-> "unset", held |-> NoHandle,
         connects |-> 0, reconnects |-> 0]

\* __init__: "if connect_dict: connect(**connect_dict)
\*            elif database_connection:
\*                if not database_connection.is_connected(): reconnect()
\*                self.database_connection = database_connection"
Exporter__init__(connect_dict, database_connection) ==
    IF connect_dict = "dict" THEN
        [database_connection |-> "new", held |-> NoHandle,
         connects |-> 1, reconnects |-> 0]
    ELSE IF database_connection.given THEN
        [database_connection |-> "handle", held |-> database_connection.id,
         connects |-> 0,
         reconnects |-> IF database_connection.connected THEN 0 ELSE 1]
    ELSE
        [database_connection |-> "unset", held |-> NoHandle,
         connects |-> 0, reconnects |-> 0]

InitExporter ==
    /\ InitRun
    /\ InitRace
    /\ config \in {d \in ConfigDocs : d.file = "missing"}
    /\ schema = TRUE
    /\ dirs = {}
    /\ clock = 0
    /\ exporters = [c \in ExporterClasses |-> NotConstructed]
    /\ handles \in [Handles -> [connected : BOOLEAN, reconnects : {0}]]

Construct(c) ==
    /\ ~exporters[c].made
    /\ \E connect_dict \in ConnectDicts, h \in Handles \cup {NoHandle} :
         LET argument == IF h = NoHandle THEN NoConnection
                         ELSE HandleArgument(h)
             self == Exporter__init__(connect_dict, argument)
         IN  /\ exporters' = [exporters EXCEPT ![c] =
                    [made |-> TRUE, connect_dict |-> connect_dict,
                     handle |-> h, was_connected |-> argument.connected,
                     database_connection |-> self.database_connection,
                     held |-> self.held, connects |-> self.connects,
                     reconnects |-> self.reconnects]]
             /\ handles' =
                    IF self.reconnects > 0
                    THEN [handles EXCEPT
                             ![h].connected = TRUE,
                             ![h].reconnects = handles[h].reconnects + 1]
                    ELSE handles
    /\ UNCHANGED <<runVars, raceVars, dirs, clock>>

\* The server or the network drops a handle's connection.
Disconnect(h) ==
    /\ handles[h].connected
    /\ handles' = [handles EXCEPT ![h].connected = FALSE]
    /\ UNCHANGED <<runVars, raceVars, dirs, clock, exporters>>

NextExporter ==
    \/ \E c \in ExporterClasses : Construct(c)
    \/ \E h \in Handles : Disconnect(h)

SpecExporter == InitExporter /\ [][NextExporter]_vars

\* C12: an exporter constructed from a handle and no connection parameters
\* opened no connection, called reconnect exactly when the handle reported
\* itself disconnected, and holds that very handle; an exporter constructed
\* from connection parameters opened exactly one connection.
C12_HandleIsReused ==
    \A c \in ExporterClasses :
        LET e == exporters[c]
        IN  /\ (e.made /\ e.connect_dict # "dict" /\ e.handle # NoHandle) =>
                   /\ e.connects = 0
                   /\ (e.reconnects = 1) <=> ~e.was_connected
                   /\ e.reconnects \in {0, 1}
                   /\ e.database_connection = "handle"
                   /\ e.held = e.handle
            /\ (e.made /\ e.connect_dict = "dict") =>
                   /\ e.connects = 1
                   /\ e.reconnects = 0
                   /\ e.database_connection = "new"

C12_Witness ==
    /\ exporters["Hosts"].made
    /\ exporters["Hosts"].connect_dict = "None"
    /\ exporters["Hosts"].handle = "cnx1"
    /\ ~exporters["Hosts"].was_connected
    /\ exporters["Hosts"].reconnects = 1
    /\ exporters["Shows"].made
    /\ exporters["Shows"].handle = "cnx1"
    /\ exporters["Shows"].connect_dict = "empty"
    /\ exporters["Shows"].was_connected
    /\ exporters["Guests"].made
    /\ exporters["Guests"].connect_dict = "dict"

(* ------------------------- order and coverage -------------------------- *)

NoDuplicates(s) == \A i, j \in 1..Len(s) : s[i] = s[j] => i = j

\* C13: in a run that completes no export operation was invoked more than
\* once and no output file was opened for writing more than once.
C13_EachOperationOnce ==
    pc = "done" => NoDuplicates(invoked) /\ NoDuplicates(opened)

\* The export operations the exporters expose.
ExposedOperations ==
    {"Descriptions.to_json", "Guests.to_json", "Hosts.to_json",
     "Locations.to_json", "Notes.to_json", "Panelists.to_json",
     "Pronouns.to_json", "Scorekeepers.to_json", "Shows.to_json",
     "Shows.bluff_map_to_json", "Shows.guest_map_to_json",
     "Shows.host_map_to_json", "Shows.location_map_to_json",
     "Shows.panelist_map_to_json", "Shows.scorekeeper_map_to_json"}

\* C14: in a run that completes every export operation the exporters
\* expose, Shows.bluff_map_to_json included, was invoked.
C14_EveryOperationInvoked ==
    pc = "done" => \A operation \in ExposedOperations :
                       \E i \in 1..Len(invoked) : invoked[i] = operation

\* The order of the output files.
WriteOrder ==
    <<"ww_showdescriptions.json", "ww_guests.json", "ww_hosts.json",
      "ww_locations.json", "ww_shownotes.json", "ww_panelists.json",
      "ww_pronouns.json", "ww_scorekeepers.json", "ww_shows.json",
      "ww_showguestmap.json", "ww_showhostmap.json",
      "ww_showlocationmap.json", "ww_showpnlmap.json", "ww_showskmap.json">>

Position(name) == CHOOSE i \in 1..Len(WriteOrder) : WriteOrder[i] = name

\* C15: the files are opened in the fixed order: a file is opened only
\* after every file before it in the order has been opened and written in
\* full, and never after a file that comes later.
C15_FixedWriteOrder ==
    \A i \in 1..Len(opened) :
        /\ \A j \in 1..i : Position(opened[j]) <= Position(opened[i])
        /\ \A k \in 1..(Position(opened[i]) - 1) :
               /\ \E j \in 1..i : opened[j] = WriteOrder[k]
               /\ given[WriteOrder[k]] # NoFile
               /\ files[WriteOrder[k]] = given[WriteOrder[k]]

C15_Witness ==
    /\ pc = "done"
    /\ opened = OutputFiles
    /\ \A name \in FileNames : files[name].st = "json"

(* ---------------------------- configuration --------------------------- *)

\* C16: with config.json missing, unreadable or not valid JSON the only
\* step of the run is the abort with an unhandled error: no configuration
\* is substituted, the output directory is neither resolved nor created,
\* no connection is opened, nothing is queried and no file is written.
C16_BadConfigAbortsFirst ==
    [][config.file # "json" =>
          /\ pc = "load_database_config"
          /\ pc' = "unhandled"
          /\ fault' \in {"FileNotFoundError", "PermissionError",
                         "JSONDecodeError"}
          /\ UNCHANGED <<database_config, settings_config, parsed_arguments,
                         output_directory, dirs, files, results, invoked,
                         opened, given, connections>>]_vars

C16_Witness ==
    /\ config.file \in {"missing", "unreadable", "invalid"}
    /\ pc = "unhandled"
    /\ connections = 0
    /\ \A name \in FileNames : files[name] = NoFile

\* The files of the three exports called before export_locations_table.
BeforeLocations == {"ww_showdescriptions.json", "ww_guests.json",
                    "ww_hosts.json"}

\* The steps of the startup sequence.
Startup == {"load_database_config", "load_settings", "parse_arguments",
            "create_output_directory"}

\* The steps up to the call of export_locations_table.
UpToLocations ==
    Startup \cup {"export_description_table", "export_guests_table",
                  "export_hosts_table", "export_locations_table"}

NoSettingsSection == config.file = "json" /\ ~config.settings

AbortedAtLocations ==
    /\ pc = "unhandled"
    /\ invoked = <<"Descriptions.to_json", "Guests.to_json", "Hosts.to_json">>
    /\ given["ww_hosts.json"] # NoFile

====
